---- MODULE Spec2Model ----
(***************************************************************************)
(* ShadeChange level generator (generator.py): the two-grid level state,   *)
(* the move engine LevelState(state, move), the iterative-deepening bot    *)
(* player and the backtracking level searcher.                             *)
(*                                                                         *)
(* Positions are pairs <<x, y>> with the source's 0-based coordinates; a   *)
(* grid field[x][y] of the source is a function over Cells.  Enum members  *)
(* carry the numeric values the source gives them.                         *)
(***************************************************************************)
EXTENDS Integers, Sequences, FiniteSets, TLC

\* ---------------------------------------------------------------- bounds
\* Grid extent of the levels explored (the source's width and height are
\* run-time parameters).
Width == 3
Height == 2
\* Largest number of non-player tiles (blocks, spirals, enemies), over both
\* grids, on a level handed to the move engine.
MaxTiles == 2

\* Largest number of non-player tiles on a level handed to the bot player.
MaxSearchTiles == 1
\* Deepest depth bound the bot player's iterative deepening is followed to
\* (the source goes on to RangeStop - 1).
MaxSearchDepth == 3

\* Chains of calls new_state = LevelState(state=new_state, move=...): the
\* largest number of moves of a chain, and the largest number of non-player
\* tiles on a level a chain is continued on.
MaxMoves == 3
MaxChainTiles == 1

\* Generation runs: the largest target step count (--steps), changes budget
\* (--changes) and blocks budget (--blocks) a run is started with.
MaxSteps == 2
MaxChanges == 1
MaxBlocks == 1
\* The value of self.max_depth up to which the loop of search is followed
\* (the source has no bound).
MaxDepth == 3
\* Largest number of tiles a run is asked to place: spirals, enemies and
\* blocks budgets together.
MaxPlacements == 1
\* Deeper runs, followed for one kind of level only: target step count
\* DeepSteps with the largest changes and blocks budgets and no spiral or
\* enemy, up to the value DeepDepth of self.max_depth.
DeepSteps == 3
DeepDepth == 4
\* The source of randomness of a run: a cycle of StreamLen draws, each in
\* 0 .. MaxDraw.
StreamLen == 2
MaxDraw == 2

\* ----------------------------------------------------------------- enums
\* class Tile
OUT_OF_BOUNDS == 0
BLANK == 1
BLOCK == 2
SPIRAL == 3
ENEMY == 4
PLAYER == 5

\* class Move
UP == 1
DOWN == 2
LEFT == 3
RIGHT == 4
CHANGE == 5
Move == {UP, DOWN, LEFT, RIGHT, CHANGE}

\* class MoveOutcome
UNDETERMINED == 1
NOTHING == 2
MOVED == 3
CHANGED == 4
PLAYER_WON == 5
ENEMY_WON == 6
PLAYER_CRUSHED == 7
PLAYER_KILLED == 8

\* A failed assert statement: the call raises AssertionError and returns
\* no outcome.  It is carried through the operators as a pseudo outcome.
AssertionError == 0

is_ending(outcome) ==
    outcome \in {PLAYER_WON, PLAYER_KILLED, PLAYER_CRUSHED, ENEMY_WON}

\* class ActivePlayer
WHITE == 1
BLACK == 2
\* Mutant of change: both tags change to BLACK.
change_to_black(active_player) == BLACK

change(active_player) == IF active_player = BLACK THEN WHITE ELSE BLACK

\* ------------------------------------------------------------- positions
\* Mutant of up: the y axis taken to grow upwards.
up_flipped(pos) == <<pos[1], pos[2] + 1>>

up(pos) == <<pos[1], pos[2] - 1>>
down(pos) == <<pos[1], pos[2] + 1>>
left(pos) == <<pos[1] - 1, pos[2]>>
right(pos) == <<pos[1] + 1, pos[2]>>

\* apply_UP .. apply_RIGHT hand up, down, left, right to apply_direction.
dir_func(move, pos) ==
    CASE move = UP -> up(pos)
      [] move = DOWN -> down(pos)
      [] move = LEFT -> left(pos)
      [] move = RIGHT -> right(pos)

Cells == (0 .. Width - 1) \X (0 .. Height - 1)

\* The order of "for x in range(width): for y in range(height)".
CellSeq == [i \in 1 .. Width * Height |-> <<(i - 1) \div Height, (i - 1) % Height>>]

\* [[Tile.BLANK for x in range(height)] for y in range(width)]
BlankField == [c \in Cells |-> BLANK]

\* The exit positions the constructor's assert admits: one cell outside one
\* edge of the grid.
ExitPositions ==
    {<<x, y>> \in (-1 .. Width) \X (-1 .. Height) :
        \/ x = -1 /\ 0 <= y /\ y < Height
        \/ x = Width /\ 0 <= y /\ y < Height
        \/ y = -1 /\ 0 <= x /\ x < Width
        \/ y = Height /\ 0 <= x /\ x < Width}

\* ------------------------------------------------------------ LevelState
\* A LevelState by value: s.field_white and s.field_black are the grids'
\* contents.  In-place mutation of self is a functional update.
active_field(s, flipped) ==
    LET active_player == IF flipped THEN change(s.active_player) ELSE s.active_player
    IN  IF active_player = WHITE THEN s.field_white ELSE s.field_black

tile(s, pos) ==
    IF pos[1] < 0 \/ pos[1] >= s.width THEN OUT_OF_BOUNDS
    ELSE IF pos[2] < 0 \/ pos[2] >= s.height THEN OUT_OF_BOUNDS
    ELSE active_field(s, FALSE)[pos]

changed_tile(s, pos) ==
    IF pos[1] < 0 \/ pos[1] >= s.width THEN OUT_OF_BOUNDS
    ELSE IF pos[2] < 0 \/ pos[2] >= s.height THEN OUT_OF_BOUNDS
    ELSE active_field(s, TRUE)[pos]

\* Mutant of set_tile: a cell is never set back to BLANK, so that a token
\* that moves stays behind as well.
set_tile_never_blank(s, pos, t, flipped) ==
    LET active_player == IF flipped THEN change(s.active_player) ELSE s.active_player
    IN  IF t = BLANK
        THEN s
        ELSE IF active_player = WHITE
        THEN [s EXCEPT !.field_white[pos] = t]
        ELSE [s EXCEPT !.field_black[pos] = t]

\* set_tile is only ever reached with pos inside the grid (every caller
\* tests tile(pos) or takes pos from a scan of the grid first).
set_tile(s, pos, t, flipped) ==
    LET active_player == IF flipped THEN change(s.active_player) ELSE s.active_player
    IN  IF active_player = WHITE
        THEN [s EXCEPT !.field_white[pos] = t]
        ELSE [s EXCEPT !.field_black[pos] = t]

\* Mutant of is_stopping: a block on either grid stops.
is_stopping_either_grid(s, pos) ==
    tile(s, pos) \in {OUT_OF_BOUNDS, BLOCK} \/ changed_tile(s, pos) = BLOCK

is_stopping(s, pos) == tile(s, pos) \in {OUT_OF_BOUNDS, BLOCK}

\* Mutant of is_killing: the spiral forgotten.
is_killing_enemy_only(s, pos) == tile(s, pos) \in {ENEMY}

is_killing(s, pos) == tile(s, pos) \in {ENEMY, SPIRAL}

\* The cells of the active grid that hold a player token, in scan order.
PlayerCells(s) == SelectSeq(CellSeq, LAMBDA c : active_field(s, FALSE)[c] = PLAYER)

\* Mutant of player_pos: the assertions left out, the scan's last hit (or
\* its initial [-1, -1]) returned.
player_pos_unasserted(s) ==
    LET found == PlayerCells(s)
    IN  IF found # <<>> THEN [raised |-> FALSE, pos |-> found[Len(found)]]
        ELSE [raised |-> FALSE, pos |-> <<-1, -1>>]

\* player_pos: the position of the single player token of the active grid;
\* AssertionError when there is none or more than one.
player_pos(s) ==
    LET found == PlayerCells(s)
    IN  IF Len(found) = 1 THEN [raised |-> FALSE, pos |-> found[1]]
        ELSE [raised |-> TRUE, pos |-> <<-1, -1>>]

\* One section of to_list: a line "x,y,value" for every cell of field in
\* scan order, as the three numbers it is made of.
to_list_section(field) ==
    [i \in 1 .. Width * Height |->
        <<CellSeq[i][1], CellSeq[i][2], field[CellSeq[i]]>>]

\* to_list: the lines of the string it returns, an empty line as <<>>; the
\* AssertionError of player_pos when the active grid has not one player.
to_list(s) ==
    LET p == player_pos(s)
    IN  IF p.raised THEN [raised |-> TRUE, lines |-> <<>>]
        ELSE [raised |-> FALSE,
              lines |-> to_list_section(s.field_white) \o << <<>> >>
                          \o to_list_section(s.field_white) \o << <<>> >>
                          \o << <<p.pos[1], p.pos[2],
                                  IF s.active_player = WHITE THEN 1 ELSE 0>>,
                                <<>>,
                                <<s.exit_pos[1], s.exit_pos[2]>> >>]

\* Mutant of apply_direction_to_entity: a player or enemy token ahead stops
\* the entity for the round instead of ending the move.
apply_direction_to_entity_tokens_stop(s, move, start_pos) ==
    LET player == tile(s, start_pos) = PLAYER
        enemy == tile(s, start_pos) = ENEMY
        next_pos == dir_func(move, start_pos)
    IN  IF ~(player \/ enemy)
        THEN [outcome |-> AssertionError, pos |-> start_pos, state |-> s]
        ELSE IF player /\ next_pos = s.exit_pos
        THEN [outcome |-> PLAYER_WON, pos |-> start_pos, state |-> s]
        ELSE IF enemy /\ next_pos = s.exit_pos
        THEN [outcome |-> ENEMY_WON, pos |-> start_pos, state |-> s]
        ELSE IF is_stopping(s, next_pos) \/ tile(s, next_pos) \in {PLAYER, ENEMY}
        THEN [outcome |-> NOTHING, pos |-> start_pos, state |-> s]
        ELSE IF player /\ is_killing(s, next_pos)
        THEN [outcome |-> PLAYER_KILLED, pos |-> start_pos, state |-> s]
        ELSE [outcome |-> MOVED, pos |-> next_pos,
              state |-> set_tile(set_tile(s, next_pos, tile(s, start_pos), FALSE),
                                 start_pos, BLANK, FALSE)]

\* Mutant of apply_direction_to_entity: the stopping test made before the
\* tests for the exit, so that the off-grid exit stops like any edge.
apply_direction_to_entity_stop_first(s, move, start_pos) ==
    LET player == tile(s, start_pos) = PLAYER
        enemy == tile(s, start_pos) = ENEMY
        next_pos == dir_func(move, start_pos)
    IN  IF ~(player \/ enemy)
        THEN [outcome |-> AssertionError, pos |-> start_pos, state |-> s]
        ELSE IF is_stopping(s, next_pos)
        THEN [outcome |-> NOTHING, pos |-> start_pos, state |-> s]
        ELSE IF player /\ is_killing(s, next_pos)
        THEN [outcome |-> PLAYER_KILLED, pos |-> start_pos, state |-> s]
        ELSE IF enemy /\ tile(s, next_pos) = PLAYER
        THEN [outcome |-> PLAYER_KILLED, pos |-> start_pos, state |-> s]
        ELSE [outcome |-> MOVED, pos |-> next_pos,
              state |-> set_tile(set_tile(s, next_pos, tile(s, start_pos), FALSE),
                                 start_pos, BLANK, FALSE)]

\* One entity's single step.  The result carries the outcome, the entity's
\* position afterwards and the (possibly mutated) state.
apply_direction_to_entity(s, move, start_pos) ==
    LET player == tile(s, start_pos) = PLAYER
        enemy == tile(s, start_pos) = ENEMY
        next_pos == dir_func(move, start_pos)
    IN  IF ~(player \/ enemy)
        THEN [outcome |-> AssertionError, pos |-> start_pos, state |-> s]
        ELSE IF player /\ next_pos = s.exit_pos
        THEN [outcome |-> PLAYER_WON, pos |-> start_pos, state |-> s]
        ELSE IF player /\ is_killing(s, next_pos)
        THEN [outcome |-> PLAYER_KILLED, pos |-> start_pos, state |-> s]
        ELSE IF enemy /\ tile(s, next_pos) = PLAYER
        THEN [outcome |-> PLAYER_KILLED, pos |-> start_pos, state |-> s]
        ELSE IF enemy /\ next_pos = s.exit_pos
        THEN [outcome |-> ENEMY_WON, pos |-> start_pos, state |-> s]
        ELSE IF is_stopping(s, next_pos)
        THEN [outcome |-> NOTHING, pos |-> start_pos, state |-> s]
        ELSE [outcome |-> MOVED, pos |-> next_pos,
              state |-> set_tile(set_tile(s, next_pos, tile(s, start_pos), FALSE),
                                 start_pos, BLANK, FALSE)]

\* Mutant of find_entities: only the player token is collected.
find_entities_players_only(s) ==
    LET found == SelectSeq(CellSeq, LAMBDA c : active_field(s, FALSE)[c] = PLAYER)
    IN  [i \in 1 .. Len(found) |-> <<UNDETERMINED, found[i]>>]

\* "Find all entities": (UNDETERMINED, (x, y)) for every player and enemy
\* token of the active grid, in scan order.
find_entities(s) ==
    LET found == SelectSeq(CellSeq,
                     LAMBDA c : active_field(s, FALSE)[c] \in {PLAYER, ENEMY})
    IN  [i \in 1 .. Len(found) |-> <<UNDETERMINED, found[i]>>]

\* One pass of "for entity in entities", from entity i on.  returned is
\* TRUE when the pass left apply_direction (an ending outcome, or a raise).
RECURSIVE for_entities(_, _, _, _, _, _)

\* The body of the loop for entity i, once apply_direction_to_entity has
\* returned next_entity.
for_entity(next_entity, move, entities, i, next_entities, moved_once) ==
    IF next_entity.outcome = AssertionError \/ is_ending(next_entity.outcome)
    THEN [returned |-> TRUE, outcome |-> next_entity.outcome,
          state |-> next_entity.state,
          entities |-> next_entities, moved_once |-> moved_once]
    ELSE for_entities(next_entity.state, move, entities, i + 1,
             Append(next_entities, <<next_entity.outcome, next_entity.pos>>),
             moved_once \/ next_entity.outcome = MOVED)

for_entities(s, move, entities, i, next_entities, moved_once) ==
    IF i > Len(entities)
    THEN [returned |-> FALSE, outcome |-> UNDETERMINED, state |-> s,
          entities |-> next_entities, moved_once |-> moved_once]
    ELSE for_entity(apply_direction_to_entity(s, move, entities[i][2]),
                    move, entities, i, next_entities, moved_once)

\* Mutant of while_entities: a single pass over the entities, so that every
\* entity advances one cell at most.
while_entities_once(s, move, entities, moved_once) ==
    LET pass == for_entities(s, move, entities, 1, <<>>, moved_once)
    IN  IF pass.returned
        THEN [outcome |-> pass.outcome, state |-> pass.state]
        ELSE [outcome |-> IF pass.moved_once THEN MOVED ELSE NOTHING,
              state |-> pass.state]

\* "while not every_outcome_was_nothing".
RECURSIVE while_entities(_, _, _, _)

\* Mutant of end_of_round: moved_once is not consulted, the move reports what
\* its last round did, and in the last round no entity moved.
end_of_round_last_round(pass, move) ==
    IF pass.returned
    THEN [outcome |-> pass.outcome, state |-> pass.state]
    ELSE IF \A i \in 1 .. Len(pass.entities) : pass.entities[i][1] = NOTHING
    THEN [outcome |-> NOTHING, state |-> pass.state]
    ELSE while_entities(pass.state, move, pass.entities, pass.moved_once)

\* The end of one round, pass being what its "for entity in entities" left:
\* the move returns, or the next round starts.
end_of_round(pass, move) ==
    IF pass.returned
    THEN [outcome |-> pass.outcome, state |-> pass.state]
    ELSE IF \A i \in 1 .. Len(pass.entities) : pass.entities[i][1] = NOTHING
    THEN [outcome |-> IF pass.moved_once THEN MOVED ELSE NOTHING,
          state |-> pass.state]
    ELSE while_entities(pass.state, move, pass.entities, pass.moved_once)

while_entities(s, move, entities, moved_once) ==
    end_of_round(for_entities(s, move, entities, 1, <<>>, moved_once), move)

apply_direction(s, move) == while_entities(s, move, find_entities(s), FALSE)

\* Mutant of apply_CHANGE: the destination is tested before the active
\* player is toggled, that is on the grid the player is leaving.
apply_CHANGE_before_toggle(s) ==
    LET p == player_pos(s)
        cleared == set_tile(s, p.pos, BLANK, FALSE)
        swapped == [cleared EXCEPT !.active_player = change(cleared.active_player)]
    IN  IF p.raised THEN [outcome |-> AssertionError, state |-> s]
        ELSE IF is_stopping(cleared, p.pos)
        THEN [outcome |-> PLAYER_CRUSHED, state |-> swapped]
        ELSE IF is_killing(cleared, p.pos)
        THEN [outcome |-> PLAYER_KILLED, state |-> swapped]
        ELSE [outcome |-> CHANGED, state |-> set_tile(swapped, p.pos, PLAYER, FALSE)]

apply_CHANGE(s) ==
    LET p == player_pos(s)
        cleared == set_tile(s, p.pos, BLANK, FALSE)
        swapped == [cleared EXCEPT !.active_player = change(cleared.active_player)]
    IN  IF p.raised THEN [outcome |-> AssertionError, state |-> s]
        ELSE IF is_stopping(swapped, p.pos)
        THEN [outcome |-> PLAYER_CRUSHED, state |-> swapped]
        ELSE IF is_killing(swapped, p.pos)
        THEN [outcome |-> PLAYER_KILLED, state |-> swapped]
        ELSE [outcome |-> CHANGED, state |-> set_tile(swapped, p.pos, PLAYER, FALSE)]

move_switch(s, move) ==
    IF move = CHANGE THEN apply_CHANGE(s) ELSE apply_direction(s, move)

\* LevelState(width=, height=, exit_pos=): the empty level.
NewLevel(exit_pos) ==
    [width |-> Width, height |-> Height,
     field_white |-> BlankField, field_black |-> BlankField,
     active_player |-> WHITE, outcome |-> UNDETERMINED, exit_pos |-> exit_pos]

\* self.outcome = self.move_switch(move), r being what move_switch left.
set_outcome(r) ==
    [raised |-> r.outcome = AssertionError,
     state |-> [r.state EXCEPT !.outcome = r.outcome]]

\* LevelState(state=s, move=move) by value: the copy of s with the move
\* applied to it.  raised is TRUE when the constructor raised.
LevelState(s, move) ==
    set_outcome(move_switch([s EXCEPT !.outcome = UNDETERMINED], move))

\* ------------------------------------------------------------- BotPlayer
\* "for move in Move": the members in definition order.
MoveSeq == <<UP, DOWN, LEFT, RIGHT, CHANGE>>

\* search_path_ids runs "for max_depth in range(1, 100)".
RangeStop == 100

\* What a search returns: nothing (None, or False from search_path_ids), a
\* path, or an AssertionError raised on the way.
NoPath == [found |-> FALSE, raised |-> FALSE, path |-> <<>>]
RaisedPath == [found |-> FALSE, raised |-> TRUE, path |-> <<>>]

RECURSIVE search(_, _, _)
RECURSIVE for_moves(_, _, _, _)

\* Mutant of search: any ending outcome taken for a win.
search_any_ending(st, path, max_depth) ==
    IF Len(path) > max_depth THEN NoPath
    ELSE IF is_ending(st.outcome)
    THEN [found |-> TRUE, raised |-> FALSE, path |-> path]
    ELSE for_moves(st, path, max_depth, 1)

\* BotPlayerSearcher.search(state, depth) with self.path = path; depth is
\* len(self.path) at every call.
search(st, path, max_depth) ==
    IF Len(path) > max_depth THEN NoPath
    ELSE IF st.outcome = PLAYER_WON
    THEN [found |-> TRUE, raised |-> FALSE, path |-> path]
    ELSE IF is_ending(st.outcome) THEN NoPath
    ELSE for_moves(st, path, max_depth, 1)

\* "if next_step is not None: return next_step", else on to the next
\* move.
with_next_step(next_step, st, path, max_depth, i) ==
    IF next_step.found \/ next_step.raised THEN next_step
    ELSE for_moves(st, path, max_depth, i + 1)

\* The body of the loop once LevelState(state, move) has returned
\* next_state (or raised).
with_next_state(next_state, st, path, max_depth, i) ==
    IF next_state.raised THEN RaisedPath
    ELSE with_next_step(search(next_state.state, Append(path, MoveSeq[i]), max_depth),
                        st, path, max_depth, i)

\* The loop "for move in Move" of search, from the i-th move on.
for_moves(st, path, max_depth, i) ==
    IF i > Len(MoveSeq) THEN NoPath
    ELSE with_next_state(LevelState(st, MoveSeq[i]), st, path, max_depth, i)

\* BotPlayerSearcher(state, start_pos, max_depth).do_search(): the player
\* token is put on start_pos, then the search starts with an empty path.
do_search(st, start_pos, max_depth) ==
    search(set_tile(st, start_pos, PLAYER, FALSE), <<>>, max_depth)

\* The loop of search_path_ids from max_depth on.
RECURSIVE for_max_depth(_, _, _)

\* "if searcher.do_search() is not None: return searcher.path", else on to
\* the next depth bound.
with_do_search(found, st, start_pos, max_depth) ==
    IF found.found \/ found.raised THEN found
    ELSE for_max_depth(st, start_pos, max_depth + 1)

for_max_depth(st, start_pos, max_depth) ==
    IF max_depth >= RangeStop \/ max_depth > MaxSearchDepth THEN NoPath
    ELSE with_do_search(do_search(st, start_pos, max_depth),
                        st, start_pos, max_depth)

\* Mutant of search_path_ids: one depth-first search at the deepest bound,
\* without the deepening.
search_path_ids_no_deepening(st, start_pos) ==
    for_max_depth(st, start_pos, MaxSearchDepth)

search_path_ids(st, start_pos) == for_max_depth(st, start_pos, 1)

\* BotPlayer(state).search_path_ids(): without a start position the bot
\* takes state.player_pos(), which asserts there is exactly one player.
BotPlayer(st) ==
    LET p == player_pos(st)
    IN  IF p.raised THEN RaisedPath ELSE search_path_ids(st, p.pos)

\* ------------------------------------------------------- GeneratorAction
\* None, for an attribute that holds no value.
None == -1

\* class LevelSearcherConfig with width and height left out (they are the
\* Width and Height of the level): the target move_count and the running
\* budget.
LevelSearcherConfig(move_count, spirals, enemies, changes, blocks) ==
    [move_count |-> move_count, spirals |-> spirals, enemies |-> enemies,
     moves |-> 0, changes |-> changes, blocks |-> blocks]

\* A generator action by value: kind is its class, the other fields are
\* its attributes (None where the class has none); start_pos is the
\* constructor's player_pos.
GeneratorMovementAction(start_pos, source, stopper, move) ==
    [kind |-> "Movement", move |-> move, player_pos |-> start_pos,
     source |-> source, stopper |-> stopper, orig_stopper_tile |-> None,
     pos |-> <<None, None>>]

GeneratorChangeAction ==
    [kind |-> "Change", move |-> CHANGE, player_pos |-> <<None, None>>,
     source |-> <<None, None>>, stopper |-> <<None, None>>,
     orig_stopper_tile |-> None, pos |-> <<None, None>>]

GeneratorBlockAction(pos) ==
    [kind |-> "Block", move |-> None, player_pos |-> <<None, None>>,
     source |-> <<None, None>>, stopper |-> <<None, None>>,
     orig_stopper_tile |-> None, pos |-> pos]

GeneratorEnemyAction(pos) ==
    [kind |-> "Enemy", move |-> None, player_pos |-> <<None, None>>,
     source |-> <<None, None>>, stopper |-> <<None, None>>,
     orig_stopper_tile |-> None, pos |-> pos]

GeneratorSpiralAction(pos) ==
    [kind |-> "Spiral", move |-> None, player_pos |-> <<None, None>>,
     source |-> <<None, None>>, stopper |-> <<None, None>>,
     orig_stopper_tile |-> None, pos |-> pos]

\* What do and undo leave behind: the action object, the level and the
\* budget they mutate in place, or an AssertionError.
Done(self, state, config) ==
    [raised |-> FALSE, self |-> self, state |-> state, config |-> config]
Raised(self, state, config) ==
    [raised |-> TRUE, self |-> self, state |-> state, config |-> config]

GeneratorMovementAction_do(self, state, config) ==
    IF tile(state, self.source) # BLANK THEN Raised(self, state, config)
    ELSE LET t == tile(state, self.stopper)
             self1 == IF t # OUT_OF_BOUNDS
                      THEN [self EXCEPT !.orig_stopper_tile = t]
                      ELSE self
             s1 == IF t # OUT_OF_BOUNDS
                   THEN set_tile(state, self.stopper, BLOCK, FALSE)
                   ELSE state
             s2 == IF tile(s1, self.player_pos) # OUT_OF_BOUNDS
                   THEN set_tile(s1, self.player_pos, BLANK, FALSE)
                   ELSE s1
         IN  Done(self1, set_tile(s2, self.source, PLAYER, FALSE),
                  [config EXCEPT !.moves = @ + 1])

\* Mutant of GeneratorMovementAction.undo: the stopper cell is left as do
\* made it.
GeneratorMovementAction_undo_stopper_left(self, state, config) ==
    LET s2 == set_tile(state, self.source, BLANK, FALSE)
        s3 == IF tile(s2, self.player_pos) # OUT_OF_BOUNDS
              THEN set_tile(s2, self.player_pos, PLAYER, FALSE)
              ELSE s2
    IN  Done(self, s3, [config EXCEPT !.moves = @ - 1])

GeneratorMovementAction_undo(self, state, config) ==
    LET s1 == IF self.orig_stopper_tile # None
              THEN set_tile(state, self.stopper, self.orig_stopper_tile, FALSE)
              ELSE state
        s2 == set_tile(s1, self.source, BLANK, FALSE)
        s3 == IF tile(s2, self.player_pos) # OUT_OF_BOUNDS
              THEN set_tile(s2, self.player_pos, PLAYER, FALSE)
              ELSE s2
    IN  Done(self, s3, [config EXCEPT !.moves = @ - 1])

\* GeneratorChangeAction.do and undo are the same statements but for the
\* sign of the step on config.changes.
GeneratorChangeAction_swap(self, state, config, step) ==
    LET p == player_pos(state)
    IN  IF p.raised THEN Raised(self, state, config)
        ELSE LET s1 == set_tile(state, p.pos, BLANK, FALSE)
                 s2 == [s1 EXCEPT !.active_player = change(s1.active_player)]
             IN  Done(self, set_tile(s2, p.pos, PLAYER, FALSE),
                      [config EXCEPT !.changes = @ + step])

GeneratorChangeAction_do(self, state, config) ==
    GeneratorChangeAction_swap(self, state, config, -1)

GeneratorChangeAction_undo(self, state, config) ==
    GeneratorChangeAction_swap(self, state, config, 1)

GeneratorBlockAction_do(self, state, config) ==
    Done(self, set_tile(state, self.pos, BLOCK, FALSE),
         [config EXCEPT !.blocks = @ - 1])

GeneratorBlockAction_undo(self, state, config) ==
    Done(self, set_tile(state, self.pos, BLANK, FALSE),
         [config EXCEPT !.blocks = @ + 1])

GeneratorEnemyAction_do(self, state, config) ==
    IF ~(config.enemies > 0) THEN Raised(self, state, config)
    ELSE Done(self, set_tile(state, self.pos, ENEMY, FALSE),
              [config EXCEPT !.enemies = @ - 1])

GeneratorEnemyAction_undo(self, state, config) ==
    Done(self, set_tile(state, self.pos, BLANK, FALSE),
         [config EXCEPT !.enemies = @ + 1])

GeneratorSpiralAction_do(self, state, config) ==
    IF ~(config.spirals > 0) THEN Raised(self, state, config)
    ELSE Done(self, set_tile(state, self.pos, SPIRAL, FALSE),
              [config EXCEPT !.spirals = @ - 1])

GeneratorSpiralAction_undo(self, state, config) ==
    Done(self, set_tile(state, self.pos, BLANK, FALSE),
         [config EXCEPT !.spirals = @ + 1])

\* selected_action.do(state, config), by the class of the action.
do(self, state, config) ==
    CASE self.kind = "Movement" -> GeneratorMovementAction_do(self, state, config)
      [] self.kind = "Change" -> GeneratorChangeAction_do(self, state, config)
      [] self.kind = "Block" -> GeneratorBlockAction_do(self, state, config)
      [] self.kind = "Enemy" -> GeneratorEnemyAction_do(self, state, config)
      [] self.kind = "Spiral" -> GeneratorSpiralAction_do(self, state, config)

\* selected_action.undo(state, config), by the class of the action.
undo(self, state, config) ==
    CASE self.kind = "Movement" -> GeneratorMovementAction_undo(self, state, config)
      [] self.kind = "Change" -> GeneratorChangeAction_undo(self, state, config)
      [] self.kind = "Block" -> GeneratorBlockAction_undo(self, state, config)
      [] self.kind = "Enemy" -> GeneratorEnemyAction_undo(self, state, config)
      [] self.kind = "Spiral" -> GeneratorSpiralAction_undo(self, state, config)

\* Mutant of get_moves: the moves of the movement actions only.
get_moves_directional(actions) ==
    LET with_move == SelectSeq(actions, LAMBDA a : a.move # None /\ a.move # CHANGE)
    IN  [i \in 1 .. Len(with_move) |-> with_move[i].move]

\* GeneratorAction.get_moves(actions)
get_moves(actions) ==
    LET with_move == SelectSeq(actions, LAMBDA a : a.move # None)
    IN  [i \in 1 .. Len(with_move) |-> with_move[i].move]

\* --------------------------------------------------------- LevelSearcher
\* range(a, b)
range(a, b) == [i \in 1 .. (b - a) |-> a + i - 1]

\* One "for ... in range" loop of expand_moves: a movement action for every
\* source cell that is neither stopping nor killing.
for_sources(state, start_pos, sources, stopper, move) ==
    LET free == SelectSeq(sources,
                    LAMBDA pos : ~(is_stopping(state, pos) \/ is_killing(state, pos)))
    IN  [i \in 1 .. Len(free) |->
            GeneratorMovementAction(start_pos, free[i], stopper, move)]

\* LevelSearcher.expand_moves, start_pos being its player_pos; self.width
\* and self.height are the level's.
expand_moves(state, start_pos) ==
    LET px == start_pos[1]
        py == start_pos[2]
        go_left == px > 0 /\ 0 <= py /\ py < state.height
        go_right == px < state.width /\ 0 <= py /\ py < state.height
        go_up == py > 0 /\ 0 <= px /\ px < state.width
        go_down == py < state.height /\ 0 <= px /\ px < state.width
        xs_left == range(0, px)
        xs_right == range(px + 1, state.width)
        ys_up == range(0, py)
        ys_down == range(py + 1, state.height)
    IN  (IF go_left
         THEN for_sources(state, start_pos,
                          [i \in 1 .. Len(xs_left) |-> <<xs_left[i], py>>],
                          <<px + 1, py>>, RIGHT)
         ELSE <<>>)
        \o (IF go_right
            THEN for_sources(state, start_pos,
                             [i \in 1 .. Len(xs_right) |-> <<xs_right[i], py>>],
                             <<px - 1, py>>, LEFT)
            ELSE <<>>)
        \o (IF go_up
            THEN for_sources(state, start_pos,
                             [i \in 1 .. Len(ys_up) |-> <<px, ys_up[i]>>],
                             <<px, py + 1>>, DOWN)
            ELSE <<>>)
        \o (IF go_down
            THEN for_sources(state, start_pos,
                             [i \in 1 .. Len(ys_down) |-> <<px, ys_down[i]>>],
                             <<px, py - 1>>, UP)
            ELSE <<>>)

\* The placements expand offers on one cell.
placements_at(state, running_config, pos) ==
    IF ~is_killing(state, pos) /\ ~is_stopping(state, pos)
         /\ tile(state, pos) # PLAYER
    THEN (IF running_config.spirals > 0 THEN <<GeneratorSpiralAction(pos)>> ELSE <<>>)
         \o (IF running_config.enemies > 0 THEN <<GeneratorEnemyAction(pos)>> ELSE <<>>)
         \o (IF running_config.blocks # 0 THEN <<GeneratorBlockAction(pos)>> ELSE <<>>)
    ELSE <<>>

\* The loop "for x in range(self.width): for y in range(self.height)" of
\* expand from the i-th cell on.
RECURSIVE for_placements(_, _, _)
for_placements(state, running_config, i) ==
    IF i > Len(CellSeq) THEN <<>>
    ELSE placements_at(state, running_config, CellSeq[i])
         \o for_placements(state, running_config, i + 1)

\* LevelSearcher.expand: the list of actions, or the AssertionError of
\* state.player_pos().
\* expand from "# Movement" on, with the placements collected so far and
\* p what state.player_pos() gives.
expand_from(p, placed, state, running_config) ==
    IF running_config.moves = 0
    THEN [raised |-> FALSE,
          actions |-> placed \o expand_moves(state, state.exit_pos)]
    ELSE IF p.raised THEN [raised |-> TRUE, actions |-> <<>>]
    ELSE [raised |-> FALSE,
          actions |-> placed
                      \o (IF running_config.changes > 0
                             /\ changed_tile(state, p.pos) \notin {BLOCK, ENEMY, SPIRAL}
                          THEN <<GeneratorChangeAction>>
                          ELSE <<>>)
                      \o expand_moves(state, p.pos)]

expand(state, running_config) ==
    expand_from(player_pos(state),
                IF running_config.enemies > 0 \/ running_config.spirals > 0
                     \/ running_config.blocks > 0
                THEN for_placements(state, running_config, 1)
                ELSE <<>>,
                state, running_config)

\* The replay loop of is_done, "for m in moves": "False" when a move ends
\* the game otherwise than by PLAYER_WON, "raise" when a move raises, and
\* "pass" when the loop runs to its end.
RECURSIVE for_m_in_moves(_, _)

\* The body of the loop once LevelState(state=s, move=m) has returned next
\* (or raised).
with_s(next, moves) ==
    IF next.raised THEN "raise"
    ELSE IF is_ending(next.state.outcome) /\ next.state.outcome # PLAYER_WON
    THEN "False"
    ELSE for_m_in_moves(next.state, Tail(moves))

for_m_in_moves(s, moves) ==
    IF moves = <<>> THEN "pass"
    ELSE with_s(LevelState(s, Head(moves)), moves)

\* Mutant of shortest_path_fits: any solution accepted.
shortest_path_any_length(shortest_path, config) ==
    shortest_path.found /\ shortest_path.path # <<>>

\* The end of is_done: "if not shortest_path" and the length test.
shortest_path_fits(shortest_path, config) ==
    IF ~shortest_path.found \/ shortest_path.path = <<>> THEN FALSE
    ELSE IF Len(shortest_path.path) # config.move_count THEN FALSE
    ELSE TRUE

\* is_done from "shortest_path = bot.search_path_ids()" on.
with_shortest_path(shortest_path, config) ==
    IF shortest_path.raised THEN "raise"
    ELSE IF shortest_path_fits(shortest_path, config) THEN "True"
    ELSE "False"

\* is_done after its replay loop: the bot player is asked for the shortest
\* path from state.player_pos() on a deep copy of state.
after_replay(replay, state, config) ==
    IF replay # "pass" THEN replay
    ELSE with_shortest_path(BotPlayer(state), config)

\* Mutant of is_done: the changes budget is not looked at.
is_done_changes_unchecked(state, actions, config) ==
    IF Len(get_moves(actions)) # config.move_count THEN "False"
    ELSE IF config.spirals > 0 THEN "False"
    ELSE IF config.enemies > 0 THEN "False"
    ELSE after_replay(for_m_in_moves(state, get_moves(actions)), state, config)

\* LevelSearcher.is_done: "True", "False" or "raise".
is_done(state, actions, config) ==
    IF Len(get_moves(actions)) # config.move_count THEN "False"
    ELSE IF config.spirals > 0 THEN "False"
    ELSE IF config.enemies > 0 THEN "False"
    ELSE IF config.changes > 0 THEN "False"
    ELSE after_replay(for_m_in_moves(state, get_moves(actions)), state, config)

\* inner_search from its entry to the head of its loop: it returns None,
\* returns actions, raises, or reaches "while" with available_actions.
\* inner_search from "available_actions = self.expand(...)" on.
with_expanded(expanded) ==
    IF expanded.raised THEN [at |-> "raise", available_actions |-> <<>>]
    ELSE [at |-> "while", available_actions |-> expanded.actions]

\* inner_search from "if self.is_done(...)" on, done being what is_done
\* returned.
with_is_done(done, level, running_config) ==
    IF done = "raise" THEN [at |-> "raise", available_actions |-> <<>>]
    ELSE IF done = "True" THEN [at |-> "return actions", available_actions |-> <<>>]
    ELSE with_expanded(expand(level, running_config))

inner_search(level, running_config, depth, actions, max_depth) ==
    IF depth > max_depth THEN [at |-> "return None", available_actions |-> <<>>]
    ELSE with_is_done(is_done(level, actions, running_config), level, running_config)

\* ------------------------------------------------- the program's objects
\* heap: the grid objects (lists of lists of Tile) allocated so far, by
\*   identity; a LevelState object refers to its two grids by index.
\* state: the LevelState a test or caller builds with set_tile and then
\*   hands to LevelState(state=state, move=...).
\* new_state: the LevelState that call returned, NoState before the call
\*   and when it raised.
\* move: the move of that call, 0 before it.
\* raised: the call ended in an AssertionError.
\* played: the earlier calls of a chain new_state = LevelState(state=
\*   new_state, move=...), oldest first: the move of each and the object it
\*   returned (which the chain no longer names).
\* printed: what state.to_list() returned when the caller printed the
\*   level, NoList before that.
\* searched, shortest_path: whether BotPlayer(state).search_path_ids() was
\*   called, and what it returned.
VARIABLES heap, state, new_state, move, raised, played, printed, searched,
          shortest_path

\* level, config, actions, available_actions, max_depth, pc, random: the
\*   LevelSearcher of a generation run.  level is self.level and config is
\*   self.config, which inner_search mutates in place as running_config;
\*   actions is the list every inner_search call of the run shares;
\*   available_actions[d + 1] is the list of that name of the inner_search
\*   call at depth d, for the calls that are at their loop; max_depth is
\*   self.max_depth; pc is where the run stands: "search" at the head of
\*   the loop of search, "while" at the head of the loop of the innermost
\*   inner_search call, "returned" when search has returned, "raised" when
\*   an AssertionError ended it; random is the source of random.choice.
VARIABLES level, config, actions, available_actions, max_depth, pc, random

engine_vars == <<new_state, move, raised, played, printed>>
bot_vars == <<searched, shortest_path>>
gen_vars == <<level, config, actions, available_actions, max_depth, pc, random>>
vars == <<heap, state, new_state, move, raised, played, printed, searched,
          shortest_path,
          level, config, actions, available_actions, max_depth, pc, random>>

\* None.
NoState ==
    [width |-> 0, height |-> 0, field_white |-> 0, field_black |-> 0,
     active_player |-> 0, outcome |-> 0, exit_pos |-> <<0, 0>>]

\* The LevelState object o of heap h by value.
Deref(h, o) ==
    [o EXCEPT !.field_white = h[o.field_white], !.field_black = h[o.field_black]]

\* Mutant of deepcopy_fields: the new object takes the old object's grids
\* themselves (self.field_black = state.field_black).
deepcopy_fields_shared(h, o) ==
    [heap |-> h, field_black |-> o.field_black, field_white |-> o.field_white]

\* copy.deepcopy(state.field_black), copy.deepcopy(state.field_white): two
\* new grid objects with the contents of the old ones.
deepcopy_fields(h, o) ==
    [heap |-> h \o <<h[o.field_black], h[o.field_white]>>,
     field_black |-> Len(h) + 1,
     field_white |-> Len(h) + 2]

\* The new object self on heap h after the move: r is what the move made
\* of self's grids and scalars.
moved_in_place(h, self, r) ==
    [raised |-> r.raised,
     heap |-> [h EXCEPT ![self.field_white] = r.state.field_white,
                        ![self.field_black] = r.state.field_black],
     self |-> [self EXCEPT !.active_player = r.state.active_player,
                           !.outcome = r.state.outcome]]

\* The new object: o's scalars and the copies of o's grids.
copy_of(o, copied) ==
    [width |-> o.width, height |-> o.height,
     field_black |-> copied.field_black,
     field_white |-> copied.field_white,
     active_player |-> o.active_player,
     outcome |-> UNDETERMINED,
     exit_pos |-> o.exit_pos]

\* LevelState.__init__(state=o, move=m) on the heap: the new object gets
\* copies of o's grids and o's scalars, then the move mutates the new
\* object's grids in place.
LevelState__init__(h, o, m) ==
    moved_in_place(deepcopy_fields(h, o).heap,
                   copy_of(o, deepcopy_fields(h, o)),
                   LevelState(Deref(deepcopy_fields(h, o).heap,
                                    copy_of(o, deepcopy_fields(h, o))), m))

\* The number of cells of grid g that hold a tile of the set kinds.
CountTiles(g, kinds) == Cardinality({c \in Cells : g[c] \in kinds})

\* to_list was not called.
NoList == [raised |-> FALSE, lines |-> <<>>]

\* No LevelSearcher was built: the generation run's variables at rest.
NoSearcher ==
    /\ level = NoState
    /\ config = LevelSearcherConfig(0, 0, 0, 0, 0)
    /\ actions = <<>>
    /\ available_actions = <<>>
    /\ max_depth = 0
    /\ pc = "no searcher"
    /\ random = <<>>

\* state = LevelState(width=Width, height=Height, exit_pos=...)
Init ==
    /\ NoSearcher
    /\ heap = <<BlankField, BlankField>>
    /\ \E exit_pos \in ExitPositions :
           state = [width |-> Width, height |-> Height,
                    field_white |-> 1, field_black |-> 2,
                    active_player |-> WHITE, outcome |-> UNDETERMINED,
                    exit_pos |-> exit_pos]
    /\ new_state = NoState
    /\ move = 0
    /\ raised = FALSE
    /\ played = <<>>
    /\ printed = NoList
    /\ searched = FALSE
    /\ shortest_path = NoPath

\* state.set_tile(pos, t, flipped) while the level is being set up, as the
\* tests do it: onto a blank cell, at most one player token (on the active
\* grid) and at most MaxTiles other tiles.
SetTile(pos, t, flipped) ==
    /\ move = 0
    /\ ~searched
    /\ active_field(Deref(heap, state), flipped)[pos] = BLANK
    /\ IF t = PLAYER
       THEN ~flipped /\ CountTiles(heap[state.field_white], {PLAYER}) = 0
       ELSE CountTiles(heap[state.field_white], {BLOCK, SPIRAL, ENEMY})
              + CountTiles(heap[state.field_black], {BLOCK, SPIRAL, ENEMY}) < MaxTiles
    /\ LET s == set_tile(Deref(heap, state), pos, t, flipped)
       IN  heap' = [heap EXCEPT ![state.field_white] = s.field_white,
                                ![state.field_black] = s.field_black]
    /\ UNCHANGED <<state, engine_vars, bot_vars, gen_vars>>

\* The constructor returned r: the heap it left, and the new object unless
\* it raised.
Constructed(r) ==
    /\ heap' = r.heap
    /\ raised' = r.raised
    /\ new_state' = IF r.raised THEN NoState ELSE r.self

\* new_state = LevelState(state=state, move=m)
Apply(m) ==
    /\ move = 0
    /\ Constructed(LevelState__init__(heap, state, m))
    /\ move' = m
    /\ UNCHANGED <<state, played, printed, bot_vars, gen_vars>>

Next ==
    \/ \E pos \in Cells, t \in {BLOCK, SPIRAL, ENEMY, PLAYER}, flipped \in BOOLEAN :
           SetTile(pos, t, flipped)
    \/ \E m \in Move : Apply(m)

Spec == Init /\ [][Next]_vars

\* shortest_path = BotPlayer(state).search_path_ids() on a level that was
\* set up with at most MaxSearchTiles tiles besides the player.
Search ==
    /\ move = 0
    /\ ~searched
    /\ CountTiles(heap[state.field_white], {BLOCK, SPIRAL, ENEMY})
         + CountTiles(heap[state.field_black], {BLOCK, SPIRAL, ENEMY}) <= MaxSearchTiles
    /\ searched' = TRUE
    /\ shortest_path' = BotPlayer(Deref(heap, state))
    /\ UNCHANGED <<heap, state, engine_vars, gen_vars>>

NextSolver ==
    \/ \E pos \in Cells, t \in {BLOCK, SPIRAL, ENEMY, PLAYER}, flipped \in BOOLEAN :
           SetTile(pos, t, flipped)
    \/ Search

SpecSolver == Init /\ [][NextSolver]_vars

\* new_state = LevelState(state=new_state, move=m): the next call of a chain,
\* made on what the last call returned while that did not end the game.
Again(m) ==
    /\ move # 0
    /\ ~raised
    /\ ~is_ending(new_state.outcome)
    /\ Len(played) + 1 < MaxMoves
    /\ CountTiles(heap[state.field_white], {BLOCK, SPIRAL, ENEMY})
         + CountTiles(heap[state.field_black], {BLOCK, SPIRAL, ENEMY}) <= MaxChainTiles
    /\ Constructed(LevelState__init__(heap, new_state, m))
    /\ move' = m
    /\ played' = Append(played, [move |-> move, new_state |-> new_state])
    /\ UNCHANGED <<state, printed, bot_vars, gen_vars>>

NextPlay ==
    \/ \E pos \in Cells, t \in {BLOCK, SPIRAL, ENEMY, PLAYER}, flipped \in BOOLEAN :
           SetTile(pos, t, flipped)
    \/ \E m \in Move : Apply(m)
    \/ \E m \in Move : Again(m)

SpecPlay == Init /\ [][NextPlay]_vars

\* printed = state.to_list(), once the level is set up.
ToList ==
    /\ move = 0
    /\ ~searched
    /\ printed = NoList
    /\ printed' = to_list(Deref(heap, state))
    /\ UNCHANGED <<heap, state, new_state, move, raised, played, bot_vars, gen_vars>>

NextList ==
    \/ \E pos \in Cells, t \in {BLOCK, SPIRAL, ENEMY, PLAYER}, flipped \in BOOLEAN :
           printed = NoList /\ SetTile(pos, t, flipped)
    \/ ToList

SpecList == Init /\ [][NextList]_vars

\* ------------------------------------------------------ a generation run
\* No test state was built: the engine's and the bot's variables at rest.
NoTest ==
    /\ heap = <<>>
    /\ state = NoState
    /\ new_state = NoState
    /\ move = 0
    /\ raised = FALSE
    /\ played = <<>>
    /\ printed = NoList
    /\ searched = FALSE
    /\ shortest_path = NoPath

\* searcher = LevelSearcher(config), with config as
\* LevelDescription.generate_with_player_from_exit_pos fills it in: the
\* exit is drawn by get_random_exit_pos, the level is empty, max_depth is 1.
InitGen ==
    /\ NoTest
    /\ \E exit_pos \in ExitPositions : level = NewLevel(exit_pos)
    /\ \E steps \in 1 .. MaxSteps, enable_spiral \in BOOLEAN,
          enable_enemy \in BOOLEAN, changes \in 0 .. MaxChanges,
          blocks \in 0 .. MaxBlocks :
           /\ (IF enable_spiral THEN 1 ELSE 0) + (IF enable_enemy THEN 1 ELSE 0)
                 + blocks <= MaxPlacements
           /\ config = LevelSearcherConfig(steps,
                                           IF enable_spiral THEN 1 ELSE 0,
                                           IF enable_enemy THEN 1 ELSE 0,
                                           changes, blocks)
    /\ actions = <<>>
    /\ available_actions = <<>>
    /\ max_depth = 1
    /\ pc = "search"
    /\ random \in [1 .. StreamLen -> 0 .. MaxDraw]

\* The depth of the innermost inner_search call and its available_actions.
depth == Len(available_actions) - 1
innermost == available_actions[Len(available_actions)]

\* random.choice(seq): the index the next draw of the source picks, draw
\* d standing for the element d / MaxDraw of the way through the list (0 the
\* first element, MaxDraw the last).
choice(seq) == (Head(random) * (Len(seq) - 1)) \div MaxDraw + 1

\* available_actions.remove(selected_action), selected_action being the
\* k-th element.
remove(seq, k) == SubSeq(seq, 1, k - 1) \o SubSeq(seq, k + 1, Len(seq))

\* The innermost call's list without its k-th element.
removed(k) ==
    [available_actions EXCEPT ![Len(available_actions)] = remove(@, k)]

\* search's call self.inner_search(self.config) reached e.
entered_at_depth_0(e) ==
    /\ pc' = CASE e.at = "while" -> "while"
               [] e.at = "return actions" -> "returned"
               [] e.at = "raise" -> "raised"
               [] e.at = "return None" -> "search"
    /\ available_actions' = IF e.at = "while" THEN <<e.available_actions>> ELSE <<>>

\* One turn of the loop of search: "self.max_depth += 1" and the call of
\* inner_search at depth 0 up to the head of its loop.
search_loop ==
    /\ pc = "search"
    /\ max_depth < MaxDepth
    /\ max_depth' = max_depth + 1
    /\ entered_at_depth_0(inner_search(level, config, 0, actions, max_depth + 1))
    /\ UNCHANGED <<level, config, actions, random>>
    /\ UNCHANGED <<heap, state, engine_vars, bot_vars>>

\* "selected_action.undo(self.level, running_config); actions.pop(0)" after
\* the call one level down returned None at once; u is what undo left.
undone(u, k) ==
    /\ level' = u.state
    /\ config' = u.config
    /\ actions' = actions
    /\ available_actions' = removed(k)
    /\ pc' = IF u.raised THEN "raised" ELSE "while"

\* The call inner_search(running_config, depth + 1, actions) reached e,
\* did being what selected_action.do left.
entered(e, did, k) ==
    IF e.at = "return None"
    THEN undone(undo(did.self, did.state, did.config), k)
    ELSE /\ level' = did.state
         /\ config' = did.config
         /\ actions' = <<did.self>> \o actions
         /\ available_actions' =
               CASE e.at = "while" -> Append(removed(k), e.available_actions)
                 [] e.at = "return actions" -> <<>>
                 [] e.at = "raise" -> removed(k)
         /\ pc' = CASE e.at = "while" -> "while"
                    [] e.at = "return actions" -> "returned"
                    [] e.at = "raise" -> "raised"

\* selected_action.do(self.level, running_config) left did.
done_action(did, k) ==
    IF did.raised
    THEN /\ level' = did.state
         /\ config' = did.config
         /\ actions' = <<did.self>> \o actions
         /\ available_actions' = removed(k)
         /\ pc' = "raised"
    ELSE entered(inner_search(did.state, did.config, depth + 1,
                              <<did.self>> \o actions, max_depth),
                 did, k)

\* One turn of the loop of inner_search: an action is chosen, removed and
\* done, and the call one level down runs up to the head of its loop, or
\* returns at once (then the action is undone).
select_action ==
    /\ pc = "while"
    /\ innermost # <<>>
    /\ done_action(do(innermost[choice(innermost)], level, config),
                   choice(innermost))
    /\ random' = Tail(random) \o <<Head(random)>>
    /\ UNCHANGED max_depth
    /\ UNCHANGED <<heap, state, engine_vars, bot_vars>>

\* The caller's "selected_action.undo(...); actions.pop(0)" after the
\* innermost call returned None; u is what undo left.
returned_to_caller(u) ==
    /\ level' = u.state
    /\ config' = u.config
    /\ actions' = Tail(actions)
    /\ available_actions' = SubSeq(available_actions, 1, Len(available_actions) - 1)
    /\ pc' = IF u.raised THEN "raised" ELSE "while"

\* The innermost inner_search call has no action left: "return None", to
\* its caller, or from depth 0 to the loop of search.
return_None ==
    /\ pc = "while"
    /\ innermost = <<>>
    /\ IF depth = 0
       THEN /\ pc' = "search"
            /\ available_actions' = <<>>
            /\ UNCHANGED <<level, config, actions>>
       ELSE returned_to_caller(undo(actions[1], level, config))
    /\ UNCHANGED <<max_depth, random>>
    /\ UNCHANGED <<heap, state, engine_vars, bot_vars>>

NextGen ==
    \/ search_loop
    \/ select_action
    \/ return_None

SpecGen == InitGen /\ [][NextGen]_vars

\* searcher = LevelSearcher(config) for DeepSteps steps with the changes and
\* the blocks budget, and no spiral or enemy.
InitDeep ==
    /\ NoTest
    /\ \E exit_pos \in ExitPositions : level = NewLevel(exit_pos)
    /\ config = LevelSearcherConfig(DeepSteps, 0, 0, MaxChanges, MaxBlocks)
    /\ actions = <<>>
    /\ available_actions = <<>>
    /\ max_depth = 1
    /\ pc = "search"
    /\ random \in [1 .. StreamLen -> 0 .. MaxDraw]

\* The turns of the loop of search of a deeper run past MaxDepth.
search_deep ==
    /\ pc = "search"
    /\ max_depth >= MaxDepth
    /\ max_depth < DeepDepth
    /\ max_depth' = max_depth + 1
    /\ entered_at_depth_0(inner_search(level, config, 0, actions, max_depth + 1))
    /\ UNCHANGED <<level, config, actions, random>>
    /\ UNCHANGED <<heap, state, engine_vars, bot_vars>>

NextDeep ==
    \/ search_loop
    \/ search_deep
    \/ select_action
    \/ return_None

SpecDeep == InitDeep /\ [][NextDeep]_vars

\* A further turn of the loop of search once max_depth has reached MaxDepth:
\* the source's counter grows without bound; here it is held at MaxDepth,
\* which then stands for "MaxDepth or more", and the turn is followed as
\* deep as MaxDepth.
search_on ==
    /\ pc = "search"
    /\ max_depth = MaxDepth
    /\ max_depth' = max_depth
    /\ entered_at_depth_0(inner_search(level, config, 0, actions, max_depth))
    /\ UNCHANGED <<level, config, actions, random>>
    /\ UNCHANGED <<heap, state, engine_vars, bot_vars>>

NextSearch ==
    \/ search_loop
    \/ search_on
    \/ select_action
    \/ return_None

\* searcher = LevelSearcher(config) for a level without spirals, enemies and
\* blocks: the target step count and the changes budget are all there is.
InitSearch ==
    /\ NoTest
    /\ \E exit_pos \in ExitPositions : level = NewLevel(exit_pos)
    /\ \E steps \in 1 .. MaxSteps, changes \in 0 .. MaxChanges :
           config = LevelSearcherConfig(steps, 0, 0, changes, 0)
    /\ actions = <<>>
    /\ available_actions = <<>>
    /\ max_depth = 1
    /\ pc = "search"
    /\ random \in [1 .. StreamLen -> 0 .. MaxDraw]

\* search has returned a level or ended in an AssertionError (the source
\* has no other way out of search); until then a step can be taken.
Terminated == pc \in {"returned", "raised"}

\* The run keeps executing, a step that can be taken is taken: weak
\* fairness of NextSearch, whose ENABLED is ~Terminated, written out as
\* "infinitely often terminated or infinitely often a step"; and weak
\* fairness of the return of an inner_search call that has no action left.
SpecSearch ==
    /\ InitSearch
    /\ [][NextSearch]_vars
    /\ WF_vars(return_None)
    /\ ([]<>Terminated \/ []<><<NextSearch>>_vars)

\* The state handed to the last call and the state it returned, by value.
S == Deref(heap, state)
T == Deref(heap, new_state)

\* ================================================================ claims
\* Vocabulary of the statements below, independent of the engine above.
\* A call LevelState(state=S, move=move) was made; it returned a state.
Called == move # 0
Applied == Called /\ ~raised
Directional == move \in {UP, DOWN, LEFT, RIGHT}

\* The unit offset of a directional move, and the cell k steps from pos.
Delta(m) ==
    CASE m = UP -> <<0, -1>>
      [] m = DOWN -> <<0, 1>>
      [] m = LEFT -> <<-1, 0>>
      [] m = RIGHT -> <<1, 0>>
Ahead(pos, m, k) == <<pos[1] + k * Delta(m)[1], pos[2] + k * Delta(m)[2]>>

\* The active and the inactive grid of a state, and a grid's cell contents
\* (OUT_OF_BOUNDS outside the grid).
ActiveGrid(s) == IF s.active_player = WHITE THEN s.field_white ELSE s.field_black
InactiveGrid(s) == IF s.active_player = WHITE THEN s.field_black ELSE s.field_white
At(g, pos) == IF pos \in Cells THEN g[pos] ELSE OUT_OF_BOUNDS
CellsOf(g, kinds) == {c \in Cells : g[c] \in kinds}

\* The state has exactly one player token on its active grid; ThePlayer is
\* its cell.
OnePlayer(s) == Cardinality(CellsOf(ActiveGrid(s), {PLAYER})) = 1
ThePlayer(s) == CHOOSE c \in Cells : ActiveGrid(s)[c] = PLAYER
OneEnemy(s) == Cardinality(CellsOf(ActiveGrid(s), {ENEMY})) = 1
TheEnemy(s) == CHOOSE c \in Cells : ActiveGrid(s)[c] = ENEMY

\* The number of blank cells directly ahead of pos in direction m.
FreeRun(g, pos, m) ==
    CHOOSE n \in 0 .. Width + Height :
        /\ \A k \in 1 .. n : At(g, Ahead(pos, m, k)) = BLANK
        /\ At(g, Ahead(pos, m, n + 1)) # BLANK

\* Cell a comes before cell b in the scan "for x ...: for y ...".
ScannedBefore(a, b) == a[1] < b[1] \/ (a[1] = b[1] /\ a[2] < b[2])

\* The last cell of the grid on the line through pos in direction m.
LastCell(pos, m) ==
    CASE m = UP -> <<pos[1], 0>>
      [] m = DOWN -> <<pos[1], Height - 1>>
      [] m = LEFT -> <<0, pos[2]>>
      [] m = RIGHT -> <<Width - 1, pos[2]>>

\* ---------------------------------------------------------------- C4
\* C4: building LevelState(state=S, move=M) leaves S as it was (its two
\* grids cell for cell, its active-player tag, outcome and exit position),
\* and the state built refers to two grid objects that are not S's.
C4_InputNotMutated ==
    [][move' # move =>
          /\ state' = state
          /\ heap'[state.field_white] = heap[state.field_white]
          /\ heap'[state.field_black] = heap[state.field_black]
          /\ ~raised' =>
                {new_state'.field_white, new_state'.field_black}
                    \cap {state.field_white, state.field_black} = {}]_vars

\* A move was applied and the state built differs from S in a grid.
C4_Witness ==
    /\ Applied
    /\ T.field_white # S.field_white
    /\ new_state.field_white # state.field_white

\* ---------------------------------------------------------------- C5
\* C5: with one player and no enemy on the active grid, a directional move
\* M whose run of blank cells ahead of the player ends at a block or at the
\* edge (not the exit) leaves the player on the last blank cell of the run
\* and every other cell of both grids as it was, with outcome MOVED when
\* the run is not empty and NOTHING when it is; when the run ends at the
\* exit position the outcome is PLAYER_WON.
C5_Slide ==
    (Called /\ Directional /\ OnePlayer(S)
       /\ CellsOf(ActiveGrid(S), {ENEMY}) = {})
    => LET p == ThePlayer(S)
           n == FreeRun(ActiveGrid(S), p, move)
           stop == Ahead(p, move, n + 1)
           rest == Ahead(p, move, n)
       IN  /\ ~raised
           /\ stop = S.exit_pos => T.outcome = PLAYER_WON
           /\ (stop # S.exit_pos
                  /\ At(ActiveGrid(S), stop) \in {BLOCK, OUT_OF_BOUNDS})
              => /\ T.outcome = (IF n > 0 THEN MOVED ELSE NOTHING)
                 /\ ActiveGrid(T) =
                       [c \in Cells |->
                           IF c = rest THEN PLAYER
                           ELSE IF c = p THEN BLANK
                           ELSE ActiveGrid(S)[c]]
                 /\ InactiveGrid(T) = InactiveGrid(S)

\* A slide of one cell that a block then stops (scenario 3's first move).
C5_Witness ==
    /\ Applied /\ Directional /\ OnePlayer(S)
    /\ CellsOf(ActiveGrid(S), {ENEMY}) = {}
    /\ FreeRun(ActiveGrid(S), ThePlayer(S), move) = 1
    /\ At(ActiveGrid(S), Ahead(ThePlayer(S), move, 2)) = BLOCK
    /\ T.outcome = MOVED

\* ---------------------------------------------------------------- C6
\* C6 as claimed: whenever the cell one step past the player in direction M
\* is the exit position, whatever else the active grid holds, the outcome
\* is PLAYER_WON and both grids of the result equal those of S.
C6_Original ==
    (Applied /\ Directional /\ OnePlayer(S)
       /\ Ahead(ThePlayer(S), move, 1) = S.exit_pos)
    => /\ T.outcome = PLAYER_WON
       /\ T.field_white = S.field_white
       /\ T.field_black = S.field_black

\* C6 amended: with the player one step from the exit in direction M, the
\* move ends in its first round; when no enemy of the active grid is
\* scanned before the player the outcome is PLAYER_WON and both grids are
\* unchanged; enemies scanned before the player step first, so that the
\* outcome is PLAYER_WON, ENEMY_WON or PLAYER_KILLED, the player token stays
\* where it was and the inactive grid is unchanged.
C6_ExitNextToPlayer ==
    (Called /\ Directional /\ OnePlayer(S)
       /\ Ahead(ThePlayer(S), move, 1) = S.exit_pos)
    => LET p == ThePlayer(S)
           earlier == {e \in CellsOf(ActiveGrid(S), {ENEMY}) : ScannedBefore(e, p)}
       IN  /\ ~raised
           /\ T.outcome \in {PLAYER_WON, ENEMY_WON, PLAYER_KILLED}
           /\ ActiveGrid(T)[p] = PLAYER
           /\ InactiveGrid(T) = InactiveGrid(S)
           /\ earlier = {} =>
                 /\ T.outcome = PLAYER_WON
                 /\ T.field_white = S.field_white
                 /\ T.field_black = S.field_black

\* The player wins next to the exit although an enemy was elsewhere.
C6_Witness ==
    /\ Applied /\ Directional /\ OnePlayer(S)
    /\ Ahead(ThePlayer(S), move, 1) = S.exit_pos
    /\ CellsOf(ActiveGrid(S), {ENEMY}) # {}
    /\ \A e \in CellsOf(ActiveGrid(S), {ENEMY}) : ~ScannedBefore(e, ThePlayer(S))
    /\ T.outcome = PLAYER_WON

\* ---------------------------------------------------------------- C7
\* The cells from which steps in direction m lead into the exit position.
ExitLine(s, m) ==
    {c \in Cells : \E k \in 1 .. Width + Height : Ahead(c, m, k) = s.exit_pos}

\* C7 as claimed: whenever the cell one step past the player in direction M
\* holds an enemy or a spiral, the outcome is PLAYER_KILLED.
C7_Original ==
    (Applied /\ Directional /\ OnePlayer(S)
       /\ At(ActiveGrid(S), Ahead(ThePlayer(S), move, 1)) \in {ENEMY, SPIRAL})
    => T.outcome = PLAYER_KILLED

\* C7 amended: with an enemy or a spiral one step past the player in
\* direction M the outcome is PLAYER_KILLED, unless an enemy steps into the
\* exit position first, which ends the move with ENEMY_WON; it is
\* PLAYER_KILLED whenever no enemy stands on the line of cells that leads
\* to the exit in direction M.
C7_HazardNextToPlayer ==
    (Called /\ Directional /\ OnePlayer(S)
       /\ At(ActiveGrid(S), Ahead(ThePlayer(S), move, 1)) \in {ENEMY, SPIRAL})
    => /\ ~raised
       /\ T.outcome \in {PLAYER_KILLED, ENEMY_WON}
       /\ CellsOf(ActiveGrid(S), {ENEMY}) \cap ExitLine(S, move) = {}
             => T.outcome = PLAYER_KILLED

\* The player steps into a spiral and is killed.
C7_Witness ==
    /\ Applied /\ Directional /\ OnePlayer(S)
    /\ At(ActiveGrid(S), Ahead(ThePlayer(S), move, 1)) = SPIRAL
    /\ T.outcome = PLAYER_KILLED

\* ---------------------------------------------------------------- C8
\* C8: CHANGE on a state with the player at p on the active grid toggles
\* the active-player tag and blanks p on the grid that was active; the
\* outcome is PLAYER_CRUSHED when the other grid holds a block at p,
\* PLAYER_KILLED when it holds an enemy or a spiral there, and otherwise
\* CHANGED with the player token put at p on the other grid; no other cell
\* of either grid changes.
C8_Change ==
    (Called /\ move = CHANGE /\ OnePlayer(S))
    => LET p == ThePlayer(S)
           other == InactiveGrid(S)[p]
       IN  /\ ~raised
           /\ T.active_player # S.active_player
           /\ T.active_player \in {WHITE, BLACK}
           /\ InactiveGrid(T) = [ActiveGrid(S) EXCEPT ![p] = BLANK]
           /\ T.outcome = (IF other = BLOCK THEN PLAYER_CRUSHED
                           ELSE IF other \in {ENEMY, SPIRAL} THEN PLAYER_KILLED
                           ELSE CHANGED)
           /\ ActiveGrid(T) = (IF other \in {BLOCK, ENEMY, SPIRAL}
                               THEN InactiveGrid(S)
                               ELSE [InactiveGrid(S) EXCEPT ![p] = PLAYER])

\* A swap onto a block of the other grid (scenario 4's last move).
C8_Witness ==
    /\ Applied /\ move = CHANGE /\ OnePlayer(S)
    /\ InactiveGrid(S)[ThePlayer(S)] = BLOCK
    /\ T.outcome = PLAYER_CRUSHED

\* ---------------------------------------------------------------- C9
\* One player and one enemy on the active grid, the enemy ahead of the
\* player on the player's line in direction m, every other cell of that
\* line blank.
EnemyAhead(s, m) ==
    /\ OnePlayer(s) /\ OneEnemy(s)
    /\ \E k \in 1 .. Width + Height : Ahead(ThePlayer(s), m, k) = TheEnemy(s)
    /\ \A c \in Cells :
          (/\ c \notin {ThePlayer(s), TheEnemy(s)}
           /\ \E k \in 0 .. Width + Height :
                 c \in {Ahead(LastCell(ThePlayer(s), m), m, -k)})
          => ActiveGrid(s)[c] = BLANK

\* The exit is at neither end of the line through pos along m.
ExitOffLine(s, pos, m) ==
    /\ s.exit_pos # Ahead(LastCell(pos, m), m, 1)
    /\ \A k \in 1 .. Width + Height : s.exit_pos # Ahead(pos, m, -k)

\* C9 as claimed: with the enemy anywhere ahead of the player on an
\* otherwise blank line whose ends are not the exit, M yields PLAYER_KILLED
\* and leaves the enemy on the last cell of the line in direction M.
C9_Original ==
    (Applied /\ Directional /\ EnemyAhead(S, move)
       /\ ExitOffLine(S, ThePlayer(S), move))
    => /\ T.outcome = PLAYER_KILLED
       /\ ActiveGrid(T)[LastCell(ThePlayer(S), move)] = ENEMY

\* C9 amended: under the same conditions (the exit not at the far end of
\* the line) M yields PLAYER_KILLED; the enemy ends on the last cell of the
\* line in direction M, except when it stands directly next to the player
\* and M is RIGHT or DOWN: the player, scanned first, is killed at once and
\* the enemy stays where it was.
C9_EnemyAhead ==
    (Called /\ Directional /\ EnemyAhead(S, move)
       /\ S.exit_pos # Ahead(LastCell(ThePlayer(S), move), move, 1))
    => LET p == ThePlayer(S)
           e == TheEnemy(S)
           atOnce == e = Ahead(p, move, 1) /\ move \in {RIGHT, DOWN}
       IN  /\ ~raised
           /\ T.outcome = PLAYER_KILLED
           /\ CellsOf(ActiveGrid(T), {ENEMY}) =
                 {IF atOnce THEN e ELSE LastCell(p, move)}

\* The enemy slides away from the player to the end of the line and the
\* player, following it, is killed (scenario 5's kind of move).
C9_Witness ==
    /\ Applied /\ Directional /\ EnemyAhead(S, move)
    /\ S.exit_pos # Ahead(LastCell(ThePlayer(S), move), move, 1)
    /\ TheEnemy(S) # LastCell(ThePlayer(S), move)
    /\ ActiveGrid(T)[LastCell(ThePlayer(S), move)] = ENEMY
    /\ T.outcome = PLAYER_KILLED

\* ---------------------------------------------------------------- C10
\* C10: with one player and one enemy on the active grid, the enemy's next
\* cell in direction M the exit position and the player's next cell neither
\* the exit nor an enemy or spiral, M yields ENEMY_WON, wherever the two
\* stand.
C10_EnemyWon ==
    (Called /\ Directional /\ OnePlayer(S) /\ OneEnemy(S)
       /\ Ahead(TheEnemy(S), move, 1) = S.exit_pos
       /\ Ahead(ThePlayer(S), move, 1) # S.exit_pos
       /\ At(ActiveGrid(S), Ahead(ThePlayer(S), move, 1)) \notin {ENEMY, SPIRAL})
    => ~raised /\ T.outcome = ENEMY_WON

\* The enemy wins although the player is scanned, and moves, before it.
C10_Witness ==
    /\ Applied /\ Directional /\ OnePlayer(S) /\ OneEnemy(S)
    /\ Ahead(TheEnemy(S), move, 1) = S.exit_pos
    /\ ScannedBefore(ThePlayer(S), TheEnemy(S))
    /\ At(ActiveGrid(S), Ahead(ThePlayer(S), move, 1)) = BLANK
    /\ T.outcome = ENEMY_WON

\* ---------------------------------------------------------------- C2, C3
\* The outcomes of replaying the moves of path one by one from st with
\* LevelState(state, move); a call that raises ends the replay with
\* AssertionError.
RECURSIVE ReplayOutcomes(_, _)
ReplayOutcomes(st, path) ==
    IF path = <<>> THEN <<>>
    ELSE LET next == LevelState(st, Head(path))
         IN  IF next.raised THEN <<AssertionError>>
             ELSE <<next.state.outcome>> \o ReplayOutcomes(next.state, Tail(path))

\* path wins from st: every move but the last has a non-ending outcome and
\* the last has PLAYER_WON.
Wins(st, path) ==
    LET outcomes == ReplayOutcomes(st, path)
    IN  /\ path # <<>>
        /\ Len(outcomes) = Len(path)
        /\ \A i \in 1 .. Len(path) - 1 :
              outcomes[i] \in {NOTHING, MOVED, CHANGED}
        /\ outcomes[Len(path)] = PLAYER_WON

\* C2: a path that search_path_ids returns for a state with one player
\* token on the active grid, replayed from that state, has a non-ending
\* outcome after every move but the last and PLAYER_WON after the last.
C2_PathWins ==
    (searched /\ shortest_path.found /\ OnePlayer(S))
    => Wins(S, shortest_path.path)

\* A returned path of three moves with a board swap in it.
C2_Witness ==
    /\ searched /\ shortest_path.found /\ OnePlayer(S)
    /\ Len(shortest_path.path) = 3
    /\ \E i \in 1 .. 3 : shortest_path.path[i] = CHANGE

\* C3: no sequence of moves strictly shorter than the returned path wins
\* from the same state.
C3_PathShortest ==
    (searched /\ shortest_path.found /\ OnePlayer(S))
    => \A n \in 0 .. Len(shortest_path.path) - 1 :
          \A shorter \in [1 .. n -> Move] : ~Wins(S, shorter)

\* A returned path of three moves that does not begin with the first move
\* of the enumeration: every shorter sequence was tried and lost.
C3_Witness ==
    /\ searched /\ shortest_path.found /\ OnePlayer(S)
    /\ Len(shortest_path.path) = 3
    /\ shortest_path.path[1] # UP

\* -------------------------------------------------------------------- C1
\* search has returned: is_done accepted self.level with the actions done.
Accepted == pc = "returned"

\* C1: for every level that is_done accepts and search returns, the path
\* that BotPlayer.search_path_ids finds from the level's player position
\* has exactly config.move_count moves, and it is a shortest winning
\* sequence: it wins, and no sequence of fewer moves wins.
C1_AcceptedShortest ==
    Accepted
    => /\ BotPlayer(level).found
       /\ Len(BotPlayer(level).path) = config.move_count
       /\ Wins(level, BotPlayer(level).path)
       /\ \A n \in 0 .. config.move_count - 1 :
             \A shorter \in [1 .. n -> Move] : ~Wins(level, shorter)

\* A level of two steps accepted in the second round of search (max_depth
\* 3), built of three actions, whose shortest path has a board swap.
C1_Witness ==
    /\ Accepted
    /\ config.move_count = 2
    /\ max_depth = 3
    /\ Len(actions) = 3
    /\ \E i \in 1 .. 2 : BotPlayer(level).path[i] = CHANGE

\* ------------------------------------------------------------------- C11
\* The cells of a grid holding a player or an enemy token next to the first
\* step of each: the token at pos cannot leave its cell in direction m.
Tokens(g) == CellsOf(g, {PLAYER, ENEMY})
Blocked(g, pos, m) == At(g, Ahead(pos, m, 1)) \in {OUT_OF_BOUNDS, BLOCK}

\* C11: a directional move that ends with a non-ending outcome ends with
\* NOTHING or MOVED; with NOTHING exactly when no player or enemy token
\* changed cell (every token was blocked at its first step), and then both
\* grids of the result equal those of the input; with MOVED exactly when at
\* least one token changed cell, and then the active grid differs.
C11_NothingOrMoved ==
    (Applied /\ Directional /\ ~is_ending(T.outcome))
    => /\ T.outcome \in {NOTHING, MOVED}
       /\ T.outcome = NOTHING
            <=> \A c \in Tokens(ActiveGrid(S)) : Blocked(ActiveGrid(S), c, move)
       /\ T.outcome = NOTHING
            => /\ T.field_white = S.field_white
               /\ T.field_black = S.field_black
       /\ T.outcome = MOVED
            <=> Tokens(ActiveGrid(T)) # Tokens(ActiveGrid(S))
       /\ T.outcome = MOVED
            <=> ActiveGrid(T) # ActiveGrid(S)

\* A blocked player and an enemy that moves: the outcome is MOVED.
C11_Witness ==
    /\ Applied /\ Directional /\ T.outcome = MOVED
    /\ OnePlayer(S) /\ OneEnemy(S)
    /\ Blocked(ActiveGrid(S), ThePlayer(S), move)
    /\ ThePlayer(T) = ThePlayer(S)
    /\ TheEnemy(T) # TheEnemy(S)

\* ------------------------------------------------------------------- C12
\* A chain of calls: ChainStates[1] is the state the first call was handed,
\* ChainStates[k + 1] the state the k-th call returned, ChainMoves[k] the
\* move of the k-th call.  The last call of the chain did not raise.
ChainMoves == [k \in 1 .. Len(played) |-> played[k].move] \o <<move>>
ChainStates ==
    <<S>> \o [k \in 1 .. Len(played) |-> Deref(heap, played[k].new_state)] \o <<T>>

\* The player tokens of a state over both grids, each with its grid.
PlayerTokens(s) ==
    {<<WHITE, c>> : c \in CellsOf(s.field_white, {PLAYER})}
      \cup {<<BLACK, c>> : c \in CellsOf(s.field_black, {PLAYER})}

\* C12: for a state with exactly one player token in total, two CHANGE
\* moves in succession that both have outcome CHANGED give a state with the
\* same active-player tag and the player token at the same coordinates on
\* the same grid.
C12_ChangeTwice ==
    Applied
    => \A k \in 1 .. Len(ChainMoves) - 1 :
           (/\ Cardinality(PlayerTokens(ChainStates[k])) = 1
            /\ ChainMoves[k] = CHANGE /\ ChainStates[k + 1].outcome = CHANGED
            /\ ChainMoves[k + 1] = CHANGE /\ ChainStates[k + 2].outcome = CHANGED)
           => /\ ChainStates[k + 2].active_player = ChainStates[k].active_player
              /\ PlayerTokens(ChainStates[k + 2]) = PlayerTokens(ChainStates[k])

\* CHANGE twice with outcome CHANGED from a state the player reached by a
\* slide, the other grid holding a tile elsewhere.
C12_Witness ==
    /\ Applied /\ Len(ChainMoves) = 3
    /\ ChainMoves[1] \in {UP, DOWN, LEFT, RIGHT} /\ ChainStates[2].outcome = MOVED
    /\ ChainMoves[2] = CHANGE /\ ChainStates[3].outcome = CHANGED
    /\ ChainMoves[3] = CHANGE /\ ChainStates[4].outcome = CHANGED
    /\ Cardinality(PlayerTokens(ChainStates[2])) = 1
    /\ CellsOf(ChainStates[2].field_black, {BLOCK, SPIRAL, ENEMY}) # {}

C14_Original ==
    Accepted
    => /\ config.spirals = 0
       /\ config.enemies = 0
       /\ config.changes = 0
       /\ config.blocks = 0

\* C14 as the code has it: at the moment a candidate is accepted, the
\* spirals, enemies and changes counters of the running budget are zero
\* (the blocks counter is not looked at and may be positive).
C14_HazardsAndChangesExhausted ==
    Accepted
    => /\ config.spirals = 0
       /\ config.enemies = 0
       /\ config.changes = 0

\* A level accepted once its enemy was placed.
C14_Witness ==
    /\ Accepted
    /\ CellsOf(level.field_white, {ENEMY}) \cup CellsOf(level.field_black, {ENEMY}) # {}
    /\ config.enemies = 0

\* ------------------------------------------------------------------- C15
\* C15: for every accepted level, replaying the returned move list from the
\* finished level gives only non-ending outcomes before the last move and
\* PLAYER_WON at the last move.
C15_MoveListWins ==
    Accepted => Wins(level, get_moves(actions))

\* ------------------------------------------------------------------- C16
\* The move list search returns: the moves of the movement and change
\* actions of the accepted action list, in its order; and the number of
\* directional moves and of CHANGE moves of a move list.
ReturnedMoves ==
    LET acts == SelectSeq(actions, LAMBDA a : a.kind \in {"Movement", "Change"})
    IN  [i \in 1 .. Len(acts) |-> acts[i].move]
CountDirectional(path) ==
    Cardinality({i \in 1 .. Len(path) : path[i] \in {UP, DOWN, LEFT, RIGHT}})
CountChange(path) == Cardinality({i \in 1 .. Len(path) : path[i] = CHANGE})

\* C16 as stated: in every accepted level the number of directional moves
\* of the returned move list (CHANGE not counted) equals config.move_count.
C16_Original ==
    Accepted => CountDirectional(ReturnedMoves) = config.move_count

\* C16 as the code has it: in every accepted level the length of the
\* returned move list, CHANGE moves included, equals config.move_count, so
\* that the number of directional moves is config.move_count less the
\* number of CHANGE moves; config.moves counts the directional moves.
C16_ChangesCounted ==
    Accepted
    => /\ Len(ReturnedMoves) = config.move_count
       /\ CountDirectional(ReturnedMoves)
            = config.move_count - CountChange(ReturnedMoves)
       /\ config.moves = CountDirectional(ReturnedMoves)

\* An accepted level whose move list holds a CHANGE.
C16_Witness ==
    /\ Accepted
    /\ CountChange(ReturnedMoves) = 1
    /\ CountDirectional(ReturnedMoves) = 1
    /\ config.move_count = 2

\* ------------------------------------------------------------------- C17
\* The state handed to the call has no player token on its active grid.
NoPlayer(s) == CellsOf(ActiveGrid(s), {PLAYER}) = {}

\* C17 as stated: any of the five moves applied to a state whose active
\* grid holds no player token fails with an AssertionError.
C17_Original ==
    (Called /\ NoPlayer(S)) => raised

\* C17 as the code has it: on a state whose active grid holds no player
\* token CHANGE fails with an AssertionError, while a directional move on
\* such a state with at most one enemy returns a state: the enemy slides
\* and the outcome is NOTHING, MOVED or ENEMY_WON.
C17_OnlyChangeFails ==
    (Called /\ NoPlayer(S))
    => /\ move = CHANGE => raised
       /\ (Directional /\ Cardinality(CellsOf(ActiveGrid(S), {ENEMY})) <= 1)
            => /\ ~raised
               /\ T.outcome \in {NOTHING, MOVED, ENEMY_WON}
               /\ NoPlayer(T)

\* A directional move on a level without a player token, which slid the
\* level's enemy; and CHANGE on such a level.
C17_Witness ==
    /\ Applied /\ NoPlayer(S) /\ Directional /\ OneEnemy(S) /\ T.outcome = MOVED
C17_WitnessChange ==
    /\ Called /\ NoPlayer(S) /\ move = CHANGE /\ raised
    /\ CellsOf(ActiveGrid(S), {ENEMY}) # {}

\* ------------------------------------------------------------------- C18
\* The configurations of C18's example: target step count 1 together with
\* one required change (of which config.changes are still to be placed).
OneStepOneChange ==
    /\ config.move_count = 1
    /\ config.changes + CountChange(ReturnedMoves) = 1

\* C18: search eventually terminates, stated for the runs of its example
\* (step count 1 with 1 required change), which no level can satisfy.
C18_SearchTerminates ==
    OneStepOneChange => <>Terminated

\* Why no level satisfies the example: is_done wants as many moves as the
\* step count and no change left to place, and a change is only offered
\* once a movement was placed.  Such a run is never accepted, and none
\* ends in an AssertionError.
C18_NeverAccepted ==
    OneStepOneChange => ~Terminated

\* ------------------------------------------------------------------- C19
\* is_done, called on the level, the action list and the running budget as
\* they are, gets as far as its solver: the move count fits, spirals,
\* enemies and changes are used up and the replay of the move list met no
\* ending outcome other than PLAYER_WON.
SolverInvoked ==
    /\ pc \in {"while", "returned"}
    /\ Len(get_moves(actions)) = config.move_count
    /\ config.spirals = 0 /\ config.enemies = 0 /\ config.changes = 0
    /\ for_m_in_moves(level, get_moves(actions)) = "pass"

\* The states a player can bring about from st by moves with non-ending
\* outcomes (outcome left aside), and whether some move from one of them
\* wins: then a finite move sequence reaches PLAYER_WON, else none does.
Continuing(s) ==
    {[LevelState(s, m).state EXCEPT !.outcome = UNDETERMINED] :
        m \in {n \in Move : /\ ~LevelState(s, n).raised
                            /\ ~is_ending(LevelState(s, n).state.outcome)}}
RECURSIVE Closure(_, _)
Closure(seen, frontier) ==
    IF frontier = {} THEN seen
    ELSE LET next == UNION {Continuing(s) : s \in frontier} \ seen
         IN  Closure(seen \cup next, next)
Solvable(st) ==
    LET start == [st EXCEPT !.outcome = UNDETERMINED]
    IN  \E s \in Closure({start}, {start}), m \in Move :
            /\ ~LevelState(s, m).raised
            /\ LevelState(s, m).state.outcome = PLAYER_WON

\* C19: every state on which is_done invokes the solver is solvable.
C19_SolverStateSolvable ==
    SolverInvoked => Solvable(level)

\* ------------------------------------------------------------------- C20
\* The number of tiles of a kind over both grids of the level, and the
\* number of actions of a kind in the action list.  A budget only shrinks by
\* its own kind of action, which undo gives back: the count requested at the
\* start is the budget left plus the actions of the kind in the list.
TilesOf(kind) ==
    Cardinality(CellsOf(level.field_white, {kind}))
      + Cardinality(CellsOf(level.field_black, {kind}))
ActionsOf(kind) == Cardinality({i \in 1 .. Len(actions) : actions[i].kind = kind})
RequestedSpirals == config.spirals + ActionsOf("Spiral")
RequestedEnemies == config.enemies + ActionsOf("Enemy")

\* C20: in every accepted level the number of SPIRAL tiles over both grids
\* is the requested spirals count and the number of ENEMY tiles over both
\* grids is the requested enemies count.
C20_HazardsRespected ==
    Accepted
    => /\ TilesOf(SPIRAL) = RequestedSpirals
       /\ TilesOf(ENEMY) = RequestedEnemies

\* ------------------------------------------------------------------- C21
\* The lines of the second section of a list dump: those between the first
\* and the second empty line.
Printed == printed # NoList /\ ~printed.raised
SecondSection == SubSeq(printed.lines, Width * Height + 2, 2 * Width * Height + 1)

\* C21: the entries of the second section of to_list carry the black grid's
\* tile codes, cell by cell in scan order.
C21_SecondSectionBlack ==
    Printed => SecondSection = to_list_section(S.field_black)

\* ------------------------------------------------------------------- C22
\* The budget before any action of the list was done, each do taken back:
\* do changes one counter by one, by the class of the action.
EntryConfig ==
    [config EXCEPT !.moves = @ - ActionsOf("Movement"),
                   !.changes = @ + ActionsOf("Change"),
                   !.blocks = @ + ActionsOf("Block"),
                   !.enemies = @ + ActionsOf("Enemy"),
                   !.spirals = @ + ActionsOf("Spiral")]

\* The actions of a list (newest first) done in the order they were
\* selected, on st with the budget cfg.
RECURSIVE DoAll(_, _, _)
DoAll(acts, st, cfg) ==
    IF acts = <<>> THEN Done(GeneratorChangeAction, st, cfg)
    ELSE LET before == DoAll(Tail(acts), st, cfg)
         IN  IF before.raised THEN before
             ELSE do(Head(acts), before.state, before.config)

\* do followed by undo, for the action a on the level and the budget as
\* they are, gives the level and the budget back.
UndoInverts(a) ==
    LET did == do(a, level, config)
        undid == undo(did.self, did.state, did.config)
    IN  /\ ~did.raised
        /\ ~undid.raised
        /\ undid.state = level
        /\ undid.config = config

\* The level and the budget are those of the action list: the empty level
\* with the actions of the list done on it and nothing else, whatever was
\* done and undone in between.
AsAtEntry ==
    LET redone == DoAll(actions, NewLevel(level.exit_pos), EntryConfig)
    IN  /\ ~redone.raised
        /\ redone.state = level
        /\ redone.config = config
        /\ EntryConfig.moves = 0

\* C22: undo is the exact inverse of do for every action that expand
\* offered (both grids, the active-player tag and every budget counter are
\* restored), and wherever the search stands without an AssertionError, the
\* level and the budget are those of the action list alone, the list having
\* one action per call that is open, and the budget the list started from is
\* the same after every step: a call that returned None has left level,
\* budget and list as they were at its entry.
C22_UndoInverts ==
    /\ [](pc = "while" =>
            /\ \A i \in 1 .. Len(innermost) : UndoInverts(innermost[i])
            /\ Len(actions) = depth)
    /\ [](pc = "search" => actions = <<>>)
    /\ [](pc \in {"search", "while", "returned"} => AsAtEntry)
    /\ [][pc' # "raised" => EntryConfig' = EntryConfig]_vars

\* A call one level down has returned None and its action was undone (the
\* innermost call has tried an action it was offered), below a movement
\* action that had put its stopper block on a cell of the grid.
C22_Witness ==
    /\ pc = "while"
    /\ Len(innermost) < Len(expand(level, config).actions)
    /\ \E i \in 1 .. Len(actions) :
           actions[i].kind = "Movement" /\ actions[i].orig_stopper_tile # None

\* ------------------------------------------------------------------- C23
\* The rounds of a directional move, as the code runs them: for each round
\* the (outcome, position) of the entities it went through, in the order of
\* the entity list (which every round keeps).  The round that ended the
\* move by an ending outcome lists the entities before the one that ended
\* it.
RECURSIVE Rounds(_, _, _, _)
Rounds(s, m, entities, moved_once) ==
    LET pass == for_entities(s, m, entities, 1, <<>>, moved_once)
    IN  IF pass.returned
           \/ \A i \in 1 .. Len(pass.entities) : pass.entities[i][1] = NOTHING
        THEN <<pass.entities>>
        ELSE <<pass.entities>> \o Rounds(pass.state, m, pass.entities, pass.moved_once)

\* An entity that reported NOTHING in a round reports NOTHING in every
\* later round: the later round neither lists it with another outcome nor
\* was ended by it (n being the number of entities of the move).
NothingPersists(rounds, n) ==
    \A r \in 1 .. Len(rounds), later \in 1 .. Len(rounds), i \in 1 .. n :
        (r < later /\ rounds[r][i][1] = NOTHING)
        => /\ i <= Len(rounds[later]) => rounds[later][i][1] = NOTHING
           /\ i # Len(rounds[later]) + 1

\* The move with the entities stopped in a round left out of the rounds
\* after it: a round goes through the entities that have not reported
\* NOTHING yet, and the move ends when none is left.
RECURSIVE Excluding(_, _, _, _)
Excluding(s, m, entities, moved_once) ==
    LET pass == for_entities(s, m, entities, 1, <<>>, moved_once)
        going == SelectSeq(pass.entities, LAMBDA e : e[1] # NOTHING)
    IN  IF pass.returned THEN [outcome |-> pass.outcome, state |-> pass.state]
        ELSE IF going = <<>>
        THEN [outcome |-> IF pass.moved_once THEN MOVED ELSE NOTHING,
              state |-> pass.state]
        ELSE Excluding(pass.state, m, going, pass.moved_once)

AtMostOneEnemy(s) == Cardinality(CellsOf(ActiveGrid(s), {ENEMY})) <= 1

\* C23: for a state with one player and at most one enemy, within one
\* directional move an entity that reported NOTHING in a round reports
\* NOTHING in every later round, and the move as the code runs it (every
\* entity attempted in every round) gives the outcome and the two grids that
\* the move with stopped entities left out of later rounds gives.
C23_StoppedStaysStopped ==
    (Called /\ Directional /\ OnePlayer(S) /\ AtMostOneEnemy(S))
    => /\ ~raised
       /\ NothingPersists(Rounds(S, move, find_entities(S), FALSE),
                          Len(find_entities(S)))
       /\ T.outcome = Excluding(S, move, find_entities(S), FALSE).outcome
       /\ T.field_white = Excluding(S, move, find_entities(S), FALSE).state.field_white
       /\ T.field_black = Excluding(S, move, find_entities(S), FALSE).state.field_black

\* A move of three rounds in which the player was stopped in the first
\* round while the enemy went on, so that the code attempted the stopped
\* player again in the rounds after.
C23_Witness ==
    /\ Applied /\ Directional /\ OnePlayer(S) /\ OneEnemy(S)
    /\ LET rounds == Rounds(S, move, find_entities(S), FALSE)
       IN  /\ Len(rounds) >= 3
           /\ \E i \in 1 .. 2 :
                 /\ rounds[1][i][1] = NOTHING
                 /\ ActiveGrid(S)[rounds[1][i][2]] = PLAYER

\* ------------------------------------------------------------------- C24
\* The state the last call of a chain was handed, and that state with its
\* inactive grid blank.
In == IF played = <<>> THEN S ELSE Deref(heap, played[Len(played)].new_state)
InactiveBlank(s) ==
    IF s.active_player = WHITE THEN [s EXCEPT !.field_black = BlankField]
    ELSE [s EXCEPT !.field_white = BlankField]

\* C24: a directional move that returns a state leaves the inactive grid,
\* the active-player tag, the width, the height and the exit position as
\* they were in the input; and the inactive grid has no influence: the move
\* raises, or gives its outcome and its active grid, exactly as it does on
\* the input with a blank inactive grid.
C24_OnlyActiveGrid ==
    (Called /\ Directional)
    => /\ raised <=> apply_direction(InactiveBlank(In), move).outcome = AssertionError
       /\ ~raised
            => /\ InactiveGrid(T) = InactiveGrid(In)
               /\ T.active_player = In.active_player
               /\ T.width = In.width
               /\ T.height = In.height
               /\ T.exit_pos = In.exit_pos
               /\ T.outcome = apply_direction(InactiveBlank(In), move).outcome
               /\ ActiveGrid(T)
                    = ActiveGrid(apply_direction(InactiveBlank(In), move).state)

\* The player slid over a cell that holds a block on the inactive grid and
\* came to rest on a cell that holds an enemy or a spiral there; and the
\* same on the black grid, after a change.
C24_Witness ==
    /\ Applied /\ Directional /\ T.outcome = MOVED
    /\ OnePlayer(In) /\ OnePlayer(T)
    /\ ThePlayer(T) = Ahead(ThePlayer(In), move, 2)
    /\ InactiveGrid(In)[Ahead(ThePlayer(In), move, 1)] = BLOCK
    /\ InactiveGrid(In)[ThePlayer(T)] \in {ENEMY, SPIRAL}
C24_WitnessBlack ==
    /\ Applied /\ Directional /\ T.outcome = MOVED
    /\ In.active_player = BLACK
    /\ CellsOf(InactiveGrid(In), {BLOCK, ENEMY, SPIRAL}) # {}

\* ------------------------------------------------------------------- C25
\* C25: on a state with exactly one player token and any number of enemy
\* tokens on the active grid, a directional move returns an outcome, no
\* assertion failing, and the active grid holds as many enemy tokens after
\* the move as before.
C25_NoAssertEnemiesKept ==
    (Called /\ Directional /\ OnePlayer(S))
    => /\ ~raised
       /\ Cardinality(CellsOf(ActiveGrid(T), {ENEMY}))
            = Cardinality(CellsOf(ActiveGrid(S), {ENEMY}))

====
